---- MODULE Spec2Model ----
(***************************************************************************)
(* Backtest simulation engine of the quantitative trading engine           *)
(* (app/services/backtest.py, BacktestEngine), the strategies it runs      *)
(* (app/strategies: the position sizer and the three signal generators)    *)
(* and the request handler that calls it (app/api/backtest.py).            *)
(*                                                                         *)
(* Specifications.  Spec, SpecCalls and SpecSmall run the engine on an     *)
(* arbitrary signal column; SpecFunctions calls the functions of the       *)
(* strategies on their own; SpecEndpoint runs the engine from the handler. *)
(*                                                                         *)
(* Numbers.  The program computes with floats; the model computes with     *)
(* exact decimals.  Every price and every amount of money is an integer    *)
(* count of 1/Unit currency units (Unit = RateDen * RateDen), and the      *)
(* commission and slippage rates are integer counts of 1/RateDen.  With    *)
(* whole-number closes every product the engine forms is then exact, so    *)
(* the model states what the code computes on the reals.                   *)
(*                                                                         *)
(* Data.  Every call of run on an engine is made with the same bar series, *)
(* chosen when the behaviour starts; df is that series with the signal     *)
(* column generate_signals attached to it.  The engine reads nothing of a  *)
(* strategy but this column and the position sizer.                        *)
(*                                                                         *)
(* Time.  A bar's timestamp (row.name, df.index[k]) is its 1-based         *)
(* position in the series: the series is strictly time-ordered.            *)
(***************************************************************************)
EXTENDS Integers, Sequences, FiniteSets, TLC

(* ------------------------------ bounds --------------------------------- *)

\* longest bar series a run is given
MaxBars == 3

\* longest bar series of the runs in which the arguments of run vary
MaxCallBars == 2

\* longest bar series a signal generator or calculate_rsi is called with
MaxSignalBars == 3

\* longest window (period, span or lookback) of the strategy parameters
MaxPeriod == 3

\* most Backtest rows the database holds before the server stops taking requests
MaxRows == 2

(* --------------------------- number model ------------------------------ *)

\* denominator of the commission and slippage rates: rate r is r / RateDen
RateDen == 100

\* prices and money are counted in 1 / Unit
Unit == RateDen * RateDen

Money(x) == x * Unit

\* v * (r / RateDen) for a value v and a rate numerator r
Scale(v, r) == (v * r) \div RateDen

\* Python int(a / b) for b > 0: truncation toward zero
Trunc(a, b) == IF a >= 0 THEN a \div b ELSE -((-a) \div b)

Max(a, b) == IF a >= b THEN a ELSE b

Abs(a) == IF a >= 0 THEN a ELSE -a

RECURSIVE Gcd(_, _)
Gcd(a, b) == IF b = 0 THEN a ELSE Gcd(b, a % b)

\* the quotient n / d (d # 0) as a fraction in lowest terms with den > 0
Ratio(n, d) ==
    LET g == Gcd(Abs(n), Abs(d))
        s == IF d < 0 THEN -1 ELSE 1
    IN  [num |-> (s * n) \div g, den |-> (s * d) \div g]

\* the whole number x as a fraction
Whole(x) == [num |-> x, den |-> 1]

(* ------------------------------ inputs --------------------------------- *)

\* marker of a missing signal (pd.isna(row["signal"]) is true for it)
NaN == 2

\* values a cell of the signal column can hold
Signals == {1, -1, 0, NaN}

\* closing prices of the bars
Closes == {Money(100), Money(110)}

\* commission and slippage rates: 0 and 0.01
Rates == {0, 1}

\* initial capitals: the sizer gives quantity 1 for the first, 2 for the second
Capitals == {Money(1000), Money(10000)}

\* initial capitals below the price of one unit, or just above it
SmallCapitals == {Money(50), Money(150)}

Bars == [close : Closes, signal : Signals]

RECURSIVE SeqsUpTo(_, _)
SeqsUpTo(S, n) ==
    IF n = 0 THEN {<< >>}
    ELSE LET shorter == SeqsUpTo(S, n - 1)
         IN  shorter \cup {Append(s, x) : s \in {t \in shorter : Len(t) = n - 1}, x \in S}

\* the signaled series generate_signals can produce from the caller's data
Series == SeqsUpTo(Bars, MaxBars)

STRATEGY_MAP == {"momentum", "mean_reversion", "breakout"}

StrategyTypes == STRATEGY_MAP \cup {"invalid_strategy"}

\* required_columns of validate_data
Columns == {"open", "high", "low", "close", "volume"}

\* the column sets of the data run is called with: complete, or one column short
ColumnSets == {Columns} \cup {Columns \ {c} : c \in Columns}

\* values of the ma_type parameter; only the first two are moving averages
MaTypes == {"sma", "ema", "wma"}

\* the arguments of a call of run, as far as an error can depend on them
AllCalls == [strategy_type : StrategyTypes, ma_type : MaTypes, columns : ColumnSets]

\* the calls made while the bar series varies over its whole range: a
\* momentum run on complete data, and a call with an unregistered type
EngineCalls ==
    {a \in AllCalls : /\ a.strategy_type \in {"momentum", "invalid_strategy"}
                      /\ a.ma_type = "sma"
                      /\ a.columns = Columns}

\* the series of the runs in which the arguments vary
CallSeries == SeqsUpTo(Bars, MaxCallBars)

\* no call made yet
NoCall == [strategy_type |-> "", ma_type |-> "", columns |-> {}]

NoError == [exception |-> "none", message |-> << >>]

\* raise ValueError(...), the message as its literal and formatted parts
ValueError(message) == [exception |-> "ValueError", message |-> message]

(* ----------------------- inputs of the functions ----------------------- *)

\* capitals, prices and risk fractions (in 1 / RateDen) the sizer is called with
SizerCapitals == {-250, -100, -1, 0, 1, 99, 100, 149, 150, 250, 10000}

SizerPrices == {1, 3, 100}

SizerRisks == {0, 2, 50, 100}

SizerCalls ==
    [fn : {"calculate_position_size"}, capital : SizerCapitals, price : SizerPrices,
     risk_per_trade : SizerRisks]

\* window lengths of the strategy parameters
Periods == 1..MaxPeriod

\* closing prices of the series the generators are called with
SignalCloses == {90, 100, 110}

\* a row of which only the close matters
FlatRow(c) == [open |-> c, high |-> c, low |-> c, close |-> c, volume |-> 1]

\* frames for the generators that read the close column alone
CloseFrames == SeqsUpTo({FlatRow(c) : c \in SignalCloses}, MaxSignalBars)

\* rows for the breakout generator: any high and low, also outside
\* high >= close >= low
BreakoutRows ==
    {[open |-> c, high |-> h, low |-> l, close |-> c, volume |-> v] :
        c \in {100, 110}, h \in {100, 110}, l \in {100, 110}, v \in {1, 4}}

BreakoutFrames == SeqsUpTo(BreakoutRows, MaxSignalBars)

MomentumCalls ==
    [fn : {"generate_signals"}, strategy_type : {"momentum"},
     parameters : [fast_period : Periods, slow_period : Periods, ma_type : {"sma", "ema"}],
     data : CloseFrames]

MeanReversionCalls ==
    [fn : {"generate_signals"}, strategy_type : {"mean_reversion"},
     parameters : [period : Periods, std_dev : {0, 1, 2}, rsi_period : Periods,
                   rsi_oversold : {30}, rsi_overbought : {70}],
     data : CloseFrames]

BreakoutCalls ==
    [fn : {"generate_signals"}, strategy_type : {"breakout"},
     parameters : [lookback_period : Periods, breakout_threshold : {0, 2},
                   volume_confirmation : BOOLEAN, volume_multiplier : {150}],
     data : BreakoutFrames]

RsiCalls ==
    [fn : {"calculate_rsi"}, prices : SeqsUpTo(SignalCloses, MaxSignalBars),
     period : Periods]

(* ------------------------------- state --------------------------------- *)

VARIABLES
    initial_capital,   \* self.initial_capital
    commission,        \* self.commission  (numerator over RateDen)
    slippage,          \* self.slippage    (numerator over RateDen)
    trades,            \* self.trades: the trade ledger
    equity_curve,      \* self.equity_curve
    df,                \* the caller's bar series with its signal column
    i,                 \* number of bars the loop has processed
    capital,           \* local: cash
    position,          \* local: quantity held (0 when flat)
    entry_price,       \* local: fill price of the open position
    pc,                \* "idle" | "loop" | "done" | "error"
    result,            \* the dictionary the last call returned (<< >> if none)
    transitions,       \* history: the Flat/Long transitions taken by the run
    args,              \* the arguments of the latest call of run
    error,             \* the exception the latest call raised (NoError if none)
    previous,          \* the caller's copy of the result returned before the latest call
    call,              \* a function of the strategies called on its own, with its arguments
    returned,          \* << >>, or <<v>> once that call has returned v
    handler,           \* position of the request handler run_backtest
    response,          \* the handler's latest response: HTTP status and detail
    db                 \* the Backtest rows of the database session, in insertion order

vars == <<initial_capital, commission, slippage, trades, equity_curve, df, i,
          capital, position, entry_price, pc, result, transitions, args, error,
          previous, call, returned, handler, response, db>>

functions == <<call, returned>>

endpoint == <<handler, response, db>>

\* what the engine never touches
others == <<functions, endpoint>>

engine == <<initial_capital, commission, slippage>>

caller == <<args, error, previous>>

\* the engine, its run and its caller
backtest == <<engine, trades, equity_curve, df, i, capital, position, entry_price,
              pc, result, transitions, caller>>

(* ------------------------------ helpers -------------------------------- *)

\* dict.update
Update(d, u) ==
    [k \in DOMAIN d \cup DOMAIN u |-> IF k \in DOMAIN u THEN u[k] ELSE d[k]]

\* default risk_per_trade = 0.02, as a count of 1 / RateDen
risk_per_trade == 2

\* mutant: the size is not raised to the minimum of one unit
PositionSizeNoMinimum(cap, price, risk) == Trunc(cap * risk, price * RateDen)

\* BaseStrategy.calculate_position_size(capital, price, risk_per_trade), the
\* risk as a count of 1 / RateDen
PositionSize(cap, price, risk) ==
    LET position_size == Trunc(cap * risk, price * RateDen)
    IN  Max(1, position_size)

\* strategy.calculate_position_size(capital, row["close"]): the default risk
CalculatePositionSize(cap, price) == PositionSize(cap, price, risk_per_trade)

\* mutant: slippage in the trader's favour on entry
EntryFillFavourable(close) == Scale(close, RateDen - slippage)

\* fill price of an entry
EntryFill(close) == Scale(close, RateDen + slippage)

\* mutant: slippage in the trader's favour on exit
ExitFillFavourable(close) == Scale(close, RateDen + slippage)

\* fill price of an exit
ExitFill(close) == Scale(close, RateDen - slippage)

\* commission on a traded amount
CommissionCost(amount) == Scale(amount, commission)

\* mutant: the first ledger entry is updated instead of the last
FirstTrade(ledger) == 1

\* index of self.trades[-1]
LastTrade(ledger) == Len(ledger)

\* mutant: the ledger of the earlier run is kept
KeptLedger == trades

\* the ledger a run starts with
NewLedger == << >>

\* mutant: the curve starts with a leading initial-capital entry
LeadingCurve == <<initial_capital>>

\* the curve a run starts with
NewCurve == << >>

\* mutant: a buy signal is acted on in either state
IsBuyAnyState(signal, pos) == signal = 1

IsBuy(signal, pos) == signal = 1 /\ pos = 0

\* mutant: every signal but a buy sells the position
IsSellUnlessBuy(signal, pos) == signal # 1 /\ pos > 0

IsSell(signal, pos) == signal = -1 /\ pos > 0

\* the value the loop records for a bar once the signal has been handled
EquityEntry(cap, pos, entry, close) ==
    IF pos > 0 THEN cap + (close - entry) * pos ELSE cap

\* mutant: the exit fields are written but the status is left as it was
ClosedTradeKeepsStatus(trade, time, exit_price, entry, pos, commission_cost) ==
    LET pnl == (exit_price - entry) * pos - (trade["commission"] + commission_cost)
        pnl_percent == Ratio(pnl * 100, entry * pos)
    IN  Update(trade, [exit_time   |-> time,
                       exit_price  |-> exit_price,
                       pnl         |-> pnl,
                       pnl_percent |-> pnl_percent])

\* mutant: the entry commission is left out of the pnl
ClosedTradeExitCommissionOnly(trade, time, exit_price, entry, pos, commission_cost) ==
    LET pnl == (exit_price - entry) * pos - commission_cost
        pnl_percent == Ratio(pnl * 100, entry * pos)
    IN  Update(trade, [exit_time   |-> time,
                       exit_price  |-> exit_price,
                       pnl         |-> pnl,
                       pnl_percent |-> pnl_percent,
                       status      |-> "closed"])

\* the exit fields written into the open trade
ClosedTrade(trade, time, exit_price, entry, pos, commission_cost) ==
    LET pnl == (exit_price - entry) * pos - (trade["commission"] + commission_cost)
        pnl_percent == Ratio(pnl * 100, entry * pos)
    IN  Update(trade, [exit_time   |-> time,
                       exit_price  |-> exit_price,
                       pnl         |-> pnl,
                       pnl_percent |-> pnl_percent,
                       status      |-> "closed"])

(* ------------------------------ metrics -------------------------------- *)

\* is a / b <= c / d, for b > 0 and d > 0?  (by continued fractions: the
\* cross products would not fit the integers of the checker)
RECURSIVE RatioLeq(_, _, _, _)
RatioLeq(a, b, c, d) ==
    LET qa == a \div b
        qc == c \div d
        ra == a % b
        rc == c % d
    IN  IF qa # qc THEN qa < qc
        ELSE IF ra = 0 THEN TRUE
        ELSE IF rc = 0 THEN FALSE
        ELSE RatioLeq(d, rc, b, ra)

\* x <= y for fractions
Leq(x, y) == RatioLeq(x.num, x.den, y.num, y.den)

RECURSIVE SeqSum(_)
SeqSum(s) == IF s = << >> THEN 0 ELSE s[1] + SeqSum(Tail(s))

\* [f(x) for x in s if P(x)]
SelectMap(s, P(_), f(_)) ==
    LET RECURSIVE go(_)
        go(k) == IF k > Len(s) THEN << >>
                 ELSE IF P(s[k]) THEN <<f(s[k])>> \o go(k + 1)
                 ELSE go(k + 1)
    IN  go(1)

\* pd.Series(curve).pct_change().dropna(), for a curve of positive values
PctChange(curve) ==
    [k \in 1..(Len(curve) - 1) |-> Ratio(curve[k + 1] - curve[k], curve[k])]

\* mutant: the deviation of a single return counts as positive
StdPositiveOfAny(rs) == Len(rs) >= 1

\* Series.std() > 0: the sample deviation is NaN below two values, and 0
\* when all values are equal
StdPositive(rs) == Len(rs) >= 2 /\ \E k \in 1..Len(rs) : rs[k] # rs[1]

\* the number mean(of) / std(over) x sqrt(252), which is irrational in
\* general and is kept as the two series that determine it
Annualised(of, over) == [mean_of |-> of, std_of |-> over]

\* Series.cummax()
CumMax(curve) ==
    LET RECURSIVE top(_)
        top(k) == IF k = 1 THEN curve[1] ELSE Max(curve[k], top(k - 1))
    IN  [k \in 1..Len(curve) |-> top(k)]

\* Series.min() of a non-empty series of fractions
MinOf(xs) ==
    LET RECURSIVE low(_)
        low(k) == IF k = 1 THEN xs[1]
                  ELSE IF Leq(xs[k], low(k - 1)) THEN xs[k] ELSE low(k - 1)
    IN  low(Len(xs))

\* the empty dictionary
NoMetrics == << >>

\* mutant: an empty ledger yields zero-valued metrics
ZeroMetrics ==
    [total_trades |-> 0, profitable_trades |-> 0, losing_trades |-> 0,
     win_rate |-> Whole(0), avg_profit |-> Whole(0), avg_loss |-> Whole(0),
     profit_factor |-> Whole(0), sharpe_ratio |-> Whole(0),
     sortino_ratio |-> Whole(0), max_drawdown |-> Whole(0)]

\* what calculate_metrics returns when there is nothing to measure
EmptyMetrics == NoMetrics

IsClosed(t) == t["status"] = "closed"

IsProfit(t) == t["pnl"] > 0

IsLoss(t) == t["pnl"] < 0

Pnl(t) == t["pnl"]

AbsPnl(t) == Abs(t["pnl"])

Same(t) == t

\* mutant: the profit factor is computed whenever a trade made a profit
HasLossesOrProfits(profits, losses) == Len(profits) > 0

\* the guard of profit_factor
HasLosses(profits, losses) == Len(losses) > 0 /\ SeqSum(losses) > 0

IsNegative(r) == r.num < 0

\* drawdown.min() * 100
MaxDrawdown(curve) ==
    LET cumulative_max == CumMax(curve)
        drawdown == [k \in 1..Len(curve) |->
                        Ratio(curve[k] - cumulative_max[k], cumulative_max[k])]
        low      == MinOf(drawdown)
    IN  Ratio(low.num * 100, low.den)

\* BacktestEngine.calculate_metrics
CalculateMetrics(ledger, curve) ==
    IF ledger = << >> THEN EmptyMetrics
    ELSE
    LET closed_trades == SelectMap(ledger, IsClosed, Same) IN
    IF closed_trades = << >> THEN EmptyMetrics
    ELSE
    LET total_trades      == Len(closed_trades)
        profits           == SelectMap(closed_trades, IsProfit, Pnl)
        losses            == SelectMap(closed_trades, IsLoss, AbsPnl)
        profitable_trades == Len(profits)
        losing_trades     == Len(losses)
        returns           == PctChange(curve)
        downside_returns  == SelectMap(returns, IsNegative, Same)
    IN  [total_trades      |-> total_trades,
         profitable_trades |-> profitable_trades,
         losing_trades     |-> losing_trades,
         win_rate          |-> Ratio(profitable_trades * 100, total_trades),
         avg_profit        |-> IF Len(profits) > 0
                               THEN Ratio(SeqSum(profits), Len(profits)) ELSE Whole(0),
         avg_loss          |-> IF Len(losses) > 0
                               THEN Ratio(SeqSum(losses), Len(losses)) ELSE Whole(0),
         profit_factor     |-> IF HasLosses(profits, losses)
                               THEN Ratio(SeqSum(profits), SeqSum(losses)) ELSE Whole(0),
         sharpe_ratio      |-> IF StdPositive(returns)
                               THEN Annualised(returns, returns) ELSE Whole(0),
         sortino_ratio     |-> IF Len(downside_returns) > 0 /\ StdPositive(downside_returns)
                               THEN Annualised(returns, downside_returns) ELSE Whole(0),
         max_drawdown      |-> MaxDrawdown(curve)]

(* ---------------------------- indicators ------------------------------- *)

\* A float of an indicator column is a fraction num / den with den > 0, or
\* NaN (0 / 0), or +inf (1 / 0).

NotANumber == [num |-> 0, den |-> 0]

Infinity == [num |-> 1, den |-> 0]

IsNaN(x) == x.den = 0 /\ x.num = 0

\* x > y on floats: false when either side is NaN
Greater(x, y) ==
    IF IsNaN(x) \/ IsNaN(y) THEN FALSE
    ELSE IF x.den = 0 THEN y.den # 0
    ELSE IF y.den = 0 THEN FALSE
    ELSE x.num * y.den > y.num * x.den

\* x + y on finite fractions
Plus(x, y) == Ratio(x.num * y.den + y.num * x.den, x.den * y.den)

\* x * y for a finite y: NaN stays NaN
Times(x, y) == IF IsNaN(x) THEN NotANumber ELSE Ratio(x.num * y.num, x.den * y.den)

\* the rows k - n + 1 .. k of a column: the window of rolling(window = n) at row k
Window(xs, n, k) == SubSeq(xs, k - n + 1, k)

\* rolling(window = n) has a value at row k: n observations (min_periods = n)
Filled(n, k) == k >= n

RECURSIVE SeqMax(_)
SeqMax(xs) == IF Len(xs) = 1 THEN xs[1] ELSE Max(xs[1], SeqMax(Tail(xs)))

RECURSIVE SeqMin(_)
SeqMin(xs) ==
    IF Len(xs) = 1 THEN xs[1]
    ELSE LET m == SeqMin(Tail(xs)) IN IF xs[1] <= m THEN xs[1] ELSE m

\* column.rolling(window = n).mean() at row k
RollingMean(xs, n, k) ==
    IF Filled(n, k) THEN Ratio(SeqSum(Window(xs, n, k)), n) ELSE NotANumber

\* column.ewm(span = n, adjust = False).mean() at row k:
\* y[1] = x[1], y[k] = (1 - a) y[k - 1] + a x[k] with a = 2 / (n + 1)
RECURSIVE Ewm(_, _, _)
Ewm(xs, n, k) ==
    IF k = 1 THEN Whole(xs[1])
    ELSE Plus(Times(Ratio(n - 1, n + 1), Ewm(xs, n, k - 1)),
              Times(Ratio(2, n + 1), Whole(xs[k])))

\* the column of a frame
Column(data, name) == [k \in 1..Len(data) |-> data[k][name]]

\* the frame a generator returns, as far as the engine reads it
Signaled(data, signal) ==
    [k \in 1..Len(data) |-> [close |-> data[k]["close"], signal |-> signal[k]]]

(* ------------------------------ momentum ------------------------------- *)

\* mutant: a row whose averages are not both defined is marked as missing
MomentumSignalOrNaN(fast_ma, slow_ma) ==
    IF IsNaN(fast_ma) \/ IsNaN(slow_ma) THEN NaN
    ELSE IF Greater(fast_ma, slow_ma) THEN 1
    ELSE IF Greater(slow_ma, fast_ma) THEN -1
    ELSE 0

\* the signal of a row, from its two averages
MomentumSignal(fast_ma, slow_ma) ==
    IF Greater(fast_ma, slow_ma) THEN 1
    ELSE IF Greater(slow_ma, fast_ma) THEN -1
    ELSE 0

MovingAverage(ma_type, xs, n, k) ==
    IF ma_type = "sma" THEN RollingMean(xs, n, k) ELSE Ewm(xs, n, k)

\* MomentumStrategy.generate_signals, for ma_type sma or ema
MomentumSignals(parameters, data) ==
    LET close == Column(data, "close")
        signal == [k \in 1..Len(data) |->
                      MomentumSignal(
                          MovingAverage(parameters.ma_type, close, parameters.fast_period, k),
                          MovingAverage(parameters.ma_type, close, parameters.slow_period, k))]
    IN  Signaled(data, signal)

(* --------------------------- mean reversion ---------------------------- *)

\* delta.where(delta > 0, 0): the rise of row k, 0 for a fall and for the
\* first row, whose delta is NaN
Rise(prices, k) ==
    IF k >= 2 /\ prices[k] > prices[k - 1] THEN prices[k] - prices[k - 1] ELSE 0

\* -delta.where(delta < 0, 0)
Fall(prices, k) ==
    IF k >= 2 /\ prices[k] < prices[k - 1] THEN prices[k - 1] - prices[k] ELSE 0

\* rs = gain / loss on floats: x / 0 is inf for x > 0 and NaN for x = 0
RelativeStrength(gain, loss) ==
    IF IsNaN(gain) \/ IsNaN(loss) THEN NotANumber
    ELSE IF loss.num = 0 THEN (IF gain.num = 0 THEN NotANumber ELSE Infinity)
    ELSE Ratio(gain.num * loss.den, gain.den * loss.num)

\* 100 - (100 / (1 + rs))
RsiOf(rs) ==
    IF IsNaN(rs) THEN NotANumber
    ELSE IF rs.den = 0 THEN Whole(100)
    ELSE Ratio(100 * rs.num, rs.den + rs.num)

\* MeanReversionStrategy.calculate_rsi
CalculateRsi(prices, period) ==
    LET rise == [k \in 1..Len(prices) |-> Rise(prices, k)]
        fall == [k \in 1..Len(prices) |-> Fall(prices, k)]
    IN  [k \in 1..Len(prices) |->
            RsiOf(RelativeStrength(RollingMean(rise, period, k),
                                   RollingMean(fall, period, k)))]

\* p^2 x the sum of squared deviations of the window from its mean
Spread(window) ==
    LET p == Len(window)
        total == SeqSum(window)
    IN  SeqSum([j \in 1..p |-> (p * window[j] - total) * (p * window[j] - total)])

\* close <= middle_band - std * std_dev at row k, for std_dev >= 0: with
\* d = mean - close the test is d >= std_dev x std, that is d >= 0 and
\* std_dev^2 x variance <= d^2; the sample deviation of one value is NaN
TouchesLowerBand(close, period, std_dev, k) ==
    /\ Filled(period, k)
    /\ period >= 2
    /\ LET window == Window(close, period, k)
           d == SeqSum(window) - period * close[k]
       IN  d >= 0 /\ std_dev * std_dev * Spread(window) <= d * d * (period - 1)

\* close >= middle_band + std * std_dev at row k
TouchesUpperBand(close, period, std_dev, k) ==
    /\ Filled(period, k)
    /\ period >= 2
    /\ LET window == Window(close, period, k)
           d == period * close[k] - SeqSum(window)
       IN  d >= 0 /\ std_dev * std_dev * Spread(window) <= d * d * (period - 1)

\* MeanReversionStrategy.generate_signals
MeanReversionSignals(parameters, data) ==
    LET close == Column(data, "close")
        rsi == CalculateRsi(close, parameters.rsi_period)
        buy_condition(k) ==
            /\ TouchesLowerBand(close, parameters.period, parameters.std_dev, k)
            /\ Greater(Whole(parameters.rsi_oversold), rsi[k])
        sell_condition(k) ==
            /\ TouchesUpperBand(close, parameters.period, parameters.std_dev, k)
            /\ Greater(rsi[k], Whole(parameters.rsi_overbought))
        signal == [k \in 1..Len(data) |->
                      IF sell_condition(k) THEN -1
                      ELSE IF buy_condition(k) THEN 1
                      ELSE 0]
    IN  Signaled(data, signal)

(* ------------------------------ breakout ------------------------------- *)

\* mutant: the level is taken over the rows before row k
ResistanceOfEarlierRows(high, lookback, k) ==
    IF k > lookback THEN Whole(SeqMax(SubSeq(high, k - lookback, k - 1)))
    ELSE NotANumber

\* df["high"].rolling(window = lookback).max() at row k
Resistance(high, lookback, k) ==
    IF Filled(lookback, k) THEN Whole(SeqMax(Window(high, lookback, k)))
    ELSE NotANumber

\* df["low"].rolling(window = lookback).min() at row k
Support(low, lookback, k) ==
    IF Filled(lookback, k) THEN Whole(SeqMin(Window(low, lookback, k)))
    ELSE NotANumber

\* BreakoutStrategy.generate_signals; breakout_threshold and
\* volume_multiplier are counts of 1 / RateDen
BreakoutSignals(parameters, data) ==
    LET close  == Column(data, "close")
        volume == Column(data, "volume")
        lookback  == parameters.lookback_period
        threshold == parameters.breakout_threshold
        resistance(k) == Resistance(Column(data, "high"), lookback, k)
        support(k)    == Support(Column(data, "low"), lookback, k)
        avg_volume(k) == RollingMean(volume, lookback, k)
        breakout_up(k)   == Times(resistance(k), Ratio(RateDen + threshold, RateDen))
        breakout_down(k) == Times(support(k), Ratio(RateDen - threshold, RateDen))
        confirmed(k) ==
            parameters.volume_confirmation =>
                Greater(Whole(volume[k]),
                        Times(avg_volume(k), Ratio(parameters.volume_multiplier, RateDen)))
        buy_condition(k)  == Greater(Whole(close[k]), breakout_up(k)) /\ confirmed(k)
        sell_condition(k) == Greater(breakout_down(k), Whole(close[k])) /\ confirmed(k)
        signal == [k \in 1..Len(data) |->
                      IF sell_condition(k) THEN -1
                      ELSE IF buy_condition(k) THEN 1
                      ELSE 0]
    IN  Signaled(data, signal)

(* --------------------------- checks of a call --------------------------- *)

\* mutant: every strategy type is taken as registered
IsRegisteredAlways(strategy_type) == TRUE

\* strategy_type in STRATEGY_MAP
IsRegistered(strategy_type) == strategy_type \in STRATEGY_MAP

\* mutant: only the close column is required
ValidateDataCloseOnly(columns) == "close" \in columns

\* BaseStrategy.validate_data
ValidateData(columns) == \A col \in Columns : col \in columns

\* the error generate_signals raises for a call with a registered type
GenerateSignalsError(a) ==
    IF ~ValidateData(a.columns)
        THEN ValueError(<<"Invalid data format">>)
    ELSE IF a.strategy_type = "momentum" /\ a.ma_type \notin {"sma", "ema"}
        THEN ValueError(<<"Invalid MA type: ", a.ma_type>>)
    ELSE NoError

\* no request answered yet
NoResponse == [status_code |-> 0, detail |-> << >>]

\* no function is called on its own
NoFunction == [fn |-> "none"]

\* the engine is used by itself: no function call, no request
EngineOnly ==
    /\ call = NoFunction
    /\ returned = << >>
    /\ handler = "none"
    /\ response = NoResponse
    /\ db = << >>

\* a new call is possible: no run is under way
Callable == pc \in {"idle", "done", "error"}

\* what the caller holds of the results returned so far
Kept == IF pc = "done" THEN result ELSE previous

(* ------------------------------ actions -------------------------------- *)

Init ==
    /\ initial_capital \in Capitals
    /\ commission \in Rates
    /\ slippage \in Rates
    /\ trades = << >>
    /\ equity_curve = << >>
    /\ df \in Series
    /\ i = 0
    /\ capital = 0
    /\ position = 0
    /\ entry_price = 0
    /\ pc = "idle"
    /\ result = << >>
    /\ transitions = << >>
    /\ args = NoCall
    /\ error = NoError
    /\ previous = << >>
    /\ EngineOnly

\* the state of the runs in which the arguments vary: one engine, short series
InitCalls ==
    /\ initial_capital = Money(1000)
    /\ commission = 1
    /\ slippage = 1
    /\ trades = << >>
    /\ equity_curve = << >>
    /\ df \in CallSeries
    /\ i = 0
    /\ capital = 0
    /\ position = 0
    /\ entry_price = 0
    /\ pc = "idle"
    /\ result = << >>
    /\ transitions = << >>
    /\ args = NoCall
    /\ error = NoError
    /\ previous = << >>
    /\ EngineOnly

\* the state of the runs of an engine with little capital, on short series
InitSmall ==
    /\ initial_capital \in SmallCapitals
    /\ commission \in Rates
    /\ slippage \in Rates
    /\ trades = << >>
    /\ equity_curve = << >>
    /\ df \in CallSeries
    /\ i = 0
    /\ capital = 0
    /\ position = 0
    /\ entry_price = 0
    /\ pc = "idle"
    /\ result = << >>
    /\ transitions = << >>
    /\ args = NoCall
    /\ error = NoError
    /\ previous = << >>
    /\ EngineOnly

\* the engine variables while no engine is in use
NoEngine ==
    /\ initial_capital = Money(1000)
    /\ commission = 0
    /\ slippage = 0
    /\ trades = << >>
    /\ equity_curve = << >>
    /\ df = << >>
    /\ i = 0
    /\ capital = 0
    /\ position = 0
    /\ entry_price = 0
    /\ pc = "idle"
    /\ result = << >>
    /\ transitions = << >>
    /\ args = NoCall
    /\ error = NoError
    /\ previous = << >>

\* the calls of the functions of the strategies, one per behaviour
FunctionCalls ==
    SizerCalls \cup MomentumCalls \cup MeanReversionCalls \cup BreakoutCalls \cup RsiCalls

InitFunctions ==
    /\ NoEngine
    /\ call \in FunctionCalls
    /\ returned = << >>
    /\ handler = "none"
    /\ response = NoResponse
    /\ db = << >>

\* the call returns v
Returns(v) ==
    /\ returned = << >>
    /\ returned' = <<v>>
    /\ UNCHANGED <<call, endpoint, backtest>>

\* strategy.calculate_position_size(capital, price, risk_per_trade)
CallCalculatePositionSize ==
    /\ call.fn = "calculate_position_size"
    /\ Returns(PositionSize(call.capital, call.price, call.risk_per_trade))

\* MomentumStrategy(parameters).generate_signals(data)
CallMomentum ==
    /\ call.fn = "generate_signals"
    /\ call.strategy_type = "momentum"
    /\ Returns(MomentumSignals(call.parameters, call.data))

\* MeanReversionStrategy(parameters).generate_signals(data)
CallMeanReversion ==
    /\ call.fn = "generate_signals"
    /\ call.strategy_type = "mean_reversion"
    /\ Returns(MeanReversionSignals(call.parameters, call.data))

\* BreakoutStrategy(parameters).generate_signals(data)
CallBreakout ==
    /\ call.fn = "generate_signals"
    /\ call.strategy_type = "breakout"
    /\ Returns(BreakoutSignals(call.parameters, call.data))

\* MeanReversionStrategy().calculate_rsi(prices, period)
CallCalculateRsi ==
    /\ call.fn = "calculate_rsi"
    /\ Returns(CalculateRsi(call.prices, call.period))

\* BacktestEngine(initial_capital, commission, slippage) once more: a fresh
\* engine with the same parameters replaces the one in use
Construct ==
    /\ pc \in {"done", "error"}
    /\ trades' = << >>
    /\ equity_curve' = << >>
    /\ i' = 0
    /\ capital' = 0
    /\ position' = 0
    /\ entry_price' = 0
    /\ pc' = "idle"
    /\ result' = << >>
    /\ transitions' = << >>
    /\ args' = NoCall
    /\ error' = NoError
    /\ previous' = Kept
    /\ UNCHANGED <<others, engine, df>>

\* run(...) with a strategy type outside STRATEGY_MAP: ValueError
RunUnknownOf(calls) ==
    /\ Callable
    /\ \E a \in calls :
        /\ ~IsRegistered(a.strategy_type)
        /\ args' = a
        /\ error' = ValueError(<<"Unknown strategy type: ", a.strategy_type>>)
    /\ pc' = "error"
    /\ result' = << >>
    /\ previous' = Kept
    /\ UNCHANGED <<others, engine, trades, equity_curve, df, i, capital, position,
                   entry_price, transitions>>

\* run(...) whose generate_signals raises: ValueError
RunRejectedOf(calls) ==
    /\ Callable
    /\ \E a \in calls :
        /\ IsRegistered(a.strategy_type)
        /\ GenerateSignalsError(a) # NoError
        /\ args' = a
        /\ error' = GenerateSignalsError(a)
    /\ pc' = "error"
    /\ result' = << >>
    /\ previous' = Kept
    /\ UNCHANGED <<others, engine, trades, equity_curve, df, i, capital, position,
                   entry_price, transitions>>

\* run(...) up to the loop: signals generated, locals and ledger reset
RunStartOf(calls) ==
    /\ Callable
    /\ \E a \in calls :
        /\ IsRegistered(a.strategy_type)
        /\ GenerateSignalsError(a) = NoError
        /\ args' = a
    /\ error' = NoError
    /\ capital' = initial_capital
    /\ position' = 0
    /\ entry_price' = 0
    /\ trades' = NewLedger
    /\ equity_curve' = NewCurve
    /\ i' = 0
    /\ pc' = "loop"
    /\ result' = << >>
    /\ previous' = Kept
    /\ transitions' = << >>
    /\ UNCHANGED <<others, engine, df>>

RunUnknown == RunUnknownOf(EngineCalls)

RunStart == RunStartOf(EngineCalls)

CallUnknown == RunUnknownOf(AllCalls)

CallRejected == RunRejectedOf(AllCalls)

CallStart == RunStartOf(AllCalls)

\* one iteration on a bar whose signal is missing
SkipBar ==
    /\ pc = "loop" /\ i < Len(df)
    /\ LET row == df[i + 1] IN
        /\ row.signal = NaN
        /\ equity_curve' = Append(equity_curve, capital)
    /\ i' = i + 1
    /\ UNCHANGED <<others, caller, engine, trades, df, capital, position, entry_price, pc,
                   result, transitions>>

\* one iteration taking the buy branch
Buy ==
    /\ pc = "loop" /\ i < Len(df)
    /\ LET row == df[i + 1] IN
        /\ row.signal # NaN
        /\ IsBuy(row.signal, position)
        /\ LET position_size   == CalculatePositionSize(capital, row.close)
               fill            == EntryFill(row.close)
               cost            == position_size * fill
               commission_cost == CommissionCost(cost)
               cap             == capital - (cost + commission_cost)
           IN  /\ entry_price' = fill
               /\ position' = position_size
               /\ capital' = cap
               /\ trades' = Append(trades, [entry_time  |-> i + 1,
                                            entry_price |-> fill,
                                            quantity    |-> position_size,
                                            side        |-> "buy",
                                            commission  |-> commission_cost,
                                            status      |-> "open"])
               /\ transitions' = Append(transitions,
                                        [kind |-> "enter", trade |-> Len(trades) + 1])
               /\ equity_curve' = Append(equity_curve,
                                         EquityEntry(cap, position_size, fill, row.close))
    /\ i' = i + 1
    /\ UNCHANGED <<others, caller, engine, df, pc, result>>

\* one iteration taking the sell branch
Sell ==
    /\ pc = "loop" /\ i < Len(df)
    /\ LET row == df[i + 1] IN
        /\ row.signal # NaN
        /\ ~IsBuy(row.signal, position)
        /\ IsSell(row.signal, position)
        /\ LET exit_price      == ExitFill(row.close)
               proceeds        == position * exit_price
               commission_cost == CommissionCost(proceeds)
               cap             == capital + (proceeds - commission_cost)
           IN  /\ capital' = cap
               /\ trades' = [trades EXCEPT ![LastTrade(trades)] =
                                ClosedTrade(@, i + 1, exit_price, entry_price,
                                            position, commission_cost)]
               /\ transitions' = Append(transitions,
                                        [kind |-> "exit", trade |-> LastTrade(trades)])
               /\ position' = 0
               /\ entry_price' = 0
               /\ equity_curve' = Append(equity_curve,
                                         EquityEntry(cap, 0, 0, row.close))
    /\ i' = i + 1
    /\ UNCHANGED <<others, caller, engine, df, pc, result>>

\* one iteration taking neither branch
Hold ==
    /\ pc = "loop" /\ i < Len(df)
    /\ LET row == df[i + 1] IN
        /\ row.signal # NaN
        /\ ~IsBuy(row.signal, position)
        /\ ~IsSell(row.signal, position)
        /\ equity_curve' = Append(equity_curve,
                                  EquityEntry(capital, position, entry_price, row.close))
    /\ i' = i + 1
    /\ UNCHANGED <<others, caller, engine, trades, df, capital, position, entry_price, pc,
                   result, transitions>>

\* the result dictionary
Result(cap, ledger, curve) ==
    [initial_capital |-> initial_capital,
     final_capital   |-> cap,
     total_return    |-> Ratio((cap - initial_capital) * 100, initial_capital),
     trades          |-> ledger,
     equity_curve    |-> curve,
     metrics         |-> CalculateMetrics(ledger, curve)]

\* mutant: the curve is left as the loop recorded it
UnclosedCurve(curve, cap) == curve

\* mutant: the first entry is overwritten instead of the last
FirstEntryClosedCurve(curve, cap) == [curve EXCEPT ![1] = cap]

\* self.equity_curve[-1] = capital
ClosedCurve(curve, cap) == [curve EXCEPT ![Len(curve)] = cap]

\* mutant: a series of one bar is not closed
MustForceCloseLongSeries(pos, n) == pos > 0 /\ n > 1

\* does the code after the loop close a position?
MustForceClose(pos, n) == pos > 0 /\ n > 0

\* after the loop, a position is still held: close it at the last bar, return
ForceClose ==
    /\ pc = "loop" /\ i = Len(df)
    /\ MustForceClose(position, Len(df))
    /\ LET last_price      == ExitFill(df[Len(df)].close)
           proceeds        == position * last_price
           commission_cost == CommissionCost(proceeds)
           cap             == capital + (proceeds - commission_cost)
           ledger          == [trades EXCEPT ![LastTrade(trades)] =
                                  ClosedTrade(@, Len(df), last_price, entry_price,
                                              position, commission_cost)]
           curve           == ClosedCurve(equity_curve, cap)
       IN  /\ capital' = cap
           /\ trades' = ledger
           /\ equity_curve' = curve
           /\ result' = Result(cap, ledger, curve)
    /\ transitions' = Append(transitions, [kind |-> "forced", trade |-> LastTrade(trades)])
    /\ pc' = "done"
    /\ UNCHANGED <<others, caller, engine, df, i, position, entry_price>>

\* after the loop, nothing to close: return
Return ==
    /\ pc = "loop" /\ i = Len(df)
    /\ ~MustForceClose(position, Len(df))
    /\ result' = Result(capital, trades, equity_curve)
    /\ pc' = "done"
    /\ UNCHANGED <<others, caller, engine, trades, equity_curve, df, i, capital, position,
                   entry_price, transitions>>

(* ------------------------- the request handler ------------------------- *)

\* the run calls the handler can make: the strategy type of a stored
\* strategy is registered, its parameters and the fetched columns are free
EndpointCalls == {a \in AllCalls : IsRegistered(a.strategy_type)}

\* Python None
None == [none |-> TRUE]

\* dict.get(key, default)
Get(d, key, default) == IF key \in DOMAIN d THEN d[key] ELSE default

\* Backtest(...) of run_backtest, as far as it is taken from the results
BacktestRow(results) ==
    LET metrics == results["metrics"] IN
    [initial_capital   |-> results["initial_capital"],
     final_capital     |-> results["final_capital"],
     total_return      |-> results["total_return"],
     sharpe_ratio      |-> Get(metrics, "sharpe_ratio", None),
     sortino_ratio     |-> Get(metrics, "sortino_ratio", None),
     max_drawdown      |-> Get(metrics, "max_drawdown", None),
     win_rate          |-> Get(metrics, "win_rate", None),
     total_trades      |-> Get(metrics, "total_trades", 0),
     profitable_trades |-> Get(metrics, "profitable_trades", 0),
     losing_trades     |-> Get(metrics, "losing_trades", 0),
     avg_profit        |-> Get(metrics, "avg_profit", None),
     avg_loss          |-> Get(metrics, "avg_loss", None),
     profit_factor     |-> Get(metrics, "profit_factor", None)]

\* the server waits for requests; one engine configuration, short series:
\* df is what the market-data service has for the requested period
InitEndpoint ==
    /\ initial_capital = Money(1000)
    /\ commission = 1
    /\ slippage = 1
    /\ trades = << >>
    /\ equity_curve = << >>
    /\ df \in CallSeries
    /\ i = 0
    /\ capital = 0
    /\ position = 0
    /\ entry_price = 0
    /\ pc = "idle"
    /\ result = << >>
    /\ transitions = << >>
    /\ args = NoCall
    /\ error = NoError
    /\ previous = << >>
    /\ call = NoFunction
    /\ returned = << >>
    /\ handler = "waiting"
    /\ response = NoResponse
    /\ db = << >>

\* raise HTTPException(status_code = code, detail = ...), or the return of
\* the handler (no detail)
Respond(code, detail) ==
    /\ response' = [status_code |-> code, detail |-> detail]
    /\ handler' = "waiting"

\* POST /backtest/ arrives
Receive ==
    /\ handler = "waiting"
    /\ Len(db) < MaxRows
    /\ handler' = "query"
    /\ response' = NoResponse
    /\ UNCHANGED <<db, functions, backtest>>

\* the strategy query finds no row: 404
QueryMissing ==
    /\ handler = "query"
    /\ Respond(404, <<"Strategy with ID ", "request.strategy_id", " not found">>)
    /\ UNCHANGED <<db, functions, backtest>>

\* the strategy query finds the strategy
QueryFound ==
    /\ handler = "query"
    /\ handler' = "fetch"
    /\ UNCHANGED <<response, db, functions, backtest>>

\* get_historical_data raises: 400
FetchFails ==
    /\ handler = "fetch"
    /\ Respond(400, <<"Failed to fetch market data for the specified symbol and date range">>)
    /\ UNCHANGED <<db, functions, backtest>>

\* get_historical_data returns an empty frame: 400
FetchEmpty ==
    /\ handler = "fetch"
    /\ Len(df) = 0
    /\ Respond(400, <<"No market data available for the specified period">>)
    /\ UNCHANGED <<db, functions, backtest>>

\* get_historical_data returns bars
FetchData ==
    /\ handler = "fetch"
    /\ Len(df) > 0
    /\ handler' = "construct"
    /\ UNCHANGED <<response, db, functions, backtest>>

\* backtest_engine = BacktestEngine(...) of the handler
HandlerConstruct ==
    /\ handler = "construct"
    /\ handler' = "run"
    /\ trades' = << >>
    /\ equity_curve' = << >>
    /\ i' = 0
    /\ capital' = 0
    /\ position' = 0
    /\ entry_price' = 0
    /\ pc' = "idle"
    /\ result' = << >>
    /\ transitions' = << >>
    /\ args' = NoCall
    /\ error' = NoError
    /\ previous' = << >>
    /\ UNCHANGED <<response, db, functions, engine, df>>

\* backtest_engine.run(...) of the handler, up to the loop
HandlerRun ==
    /\ handler = "run"
    /\ pc = "idle"
    /\ RunStartOf(EndpointCalls)

\* backtest_engine.run(...) of the handler raises in generate_signals
HandlerRunRejected ==
    /\ handler = "run"
    /\ pc = "idle"
    /\ RunRejectedOf(EndpointCalls)

\* mutant: the row built for the request is stored although run raised
HandlerErrorKeepsRow ==
    /\ handler = "run"
    /\ pc = "error"
    /\ Respond(500, <<"An internal error occurred while running the backtest">>)
    /\ db' = Append(db, [initial_capital |-> initial_capital])
    /\ UNCHANGED <<functions, backtest>>

\* except Exception of the handler: 500
HandlerError ==
    /\ handler = "run"
    /\ pc = "error"
    /\ Respond(500, <<"An internal error occurred while running the backtest">>)
    /\ UNCHANGED <<db, functions, backtest>>

\* db.add(db_backtest); db.commit(); db.refresh(db_backtest); return: 201
HandlerSave ==
    /\ handler = "run"
    /\ pc = "done"
    /\ db' = Append(db, BacktestRow(result))
    /\ Respond(201, << >>)
    /\ UNCHANGED <<functions, backtest>>

(* --------------------------- specifications ---------------------------- *)

Next ==
    \/ Construct
    \/ RunUnknown
    \/ RunStart
    \/ SkipBar
    \/ Buy
    \/ Sell
    \/ Hold
    \/ ForceClose
    \/ Return

Spec == Init /\ [][Next]_vars

\* the runs in which the arguments of run vary
NextCalls ==
    \/ Construct
    \/ CallUnknown
    \/ CallRejected
    \/ CallStart
    \/ SkipBar
    \/ Buy
    \/ Sell
    \/ Hold
    \/ ForceClose
    \/ Return

SpecCalls == InitCalls /\ [][NextCalls]_vars

\* the runs of an engine with little capital
SpecSmall == InitSmall /\ [][Next]_vars

\* the functions of the strategies called on their own
NextFunctions ==
    \/ CallCalculatePositionSize
    \/ CallMomentum
    \/ CallMeanReversion
    \/ CallBreakout
    \/ CallCalculateRsi

SpecFunctions == InitFunctions /\ [][NextFunctions]_vars

\* the requests to run_backtest
NextEndpoint ==
    \/ Receive
    \/ QueryMissing
    \/ QueryFound
    \/ FetchFails
    \/ FetchEmpty
    \/ FetchData
    \/ HandlerConstruct
    \/ HandlerRun
    \/ HandlerRunRejected
    \/ SkipBar
    \/ Buy
    \/ Sell
    \/ Hold
    \/ ForceClose
    \/ Return
    \/ HandlerError
    \/ HandlerSave

SpecEndpoint == InitEndpoint /\ [][NextEndpoint]_vars

TypeOK ==
    /\ pc \in {"idle", "loop", "done", "error"}
    /\ i \in 0..Len(df)
    /\ position >= 0
    /\ Len(df) <= MaxBars

(* ------------------------- vocabulary of the claims -------------------- *)

OpenTrades == {k \in 1..Len(trades) : trades[k]["status"] = "open"}

ClosedTrades == {k \in 1..Len(trades) : trades[k]["status"] = "closed"}

ExitFields == {"exit_time", "exit_price", "pnl", "pnl_percent"}

\* the run is between two bars, or after the last one, and has not returned
InLoop == pc = "loop"

\* the loop is about to process bar i + 1
AtBar == pc = "loop" /\ i < Len(df)

\* the loop has ended and the code after it has not run yet
AfterLoop == pc = "loop" /\ i = Len(df)

NextClose == df[i + 1].close

NextSignal == df[i + 1].signal

Kinds(ks) == {n \in 1..Len(transitions) : transitions[n].kind \in ks}

ClosingsOf(k) ==
    {n \in 1..Len(transitions) :
        transitions[n].kind \in {"exit", "forced"} /\ transitions[n].trade = k}

\* the call of the function fn has returned
Returned(fn) == call.fn = fn /\ Len(returned) = 1

(* -------------------------------- C1 ----------------------------------- *)

C1_ForcedCloseStep ==
    (AfterLoop /\ position > 0 /\ Len(df) > 0) =>
        LET close      == df[Len(df)].close
            last_price == (close * (RateDen - slippage)) \div RateDen
            proceeds   == position * last_price
            exit_comm  == (proceeds * commission) \div RateDen
            n          == Len(trades)
        IN  /\ pc' = "done"
            /\ Len(trades') = n
            /\ trades'[n]["status"] = "closed"
            /\ ExitFields \subseteq DOMAIN trades'[n]
            /\ trades'[n]["exit_time"] = Len(df)
            /\ trades'[n]["exit_price"] = last_price
            /\ result'["final_capital"] = capital + proceeds - exit_comm
            /\ result'["trades"] = trades'

\* C1: when run returns from a non-empty series no trade of the ledger is
\* open; a position still held after the last bar is closed at that bar's
\* close x (1 - slippage), exit commission is charged on the proceeds, the
\* trade gets exit_time, exit_price, pnl and pnl_percent, and final_capital
\* includes the credited proceeds.
C1_NoOpenTradeAtReturn ==
    /\ [](pc = "done" /\ Len(df) > 0 =>
            /\ OpenTrades = {}
            /\ \A k \in 1..Len(trades) : ExitFields \subseteq DOMAIN trades[k]
            /\ result["trades"] = trades
            /\ result["final_capital"] = capital)
    /\ [][C1_ForcedCloseStep]_vars

\* a run has returned through the forced close, with costs charged
C1_Witness ==
    /\ pc = "done"
    /\ Len(transitions) > 0
    /\ transitions[Len(transitions)].kind = "forced"
    /\ commission > 0 /\ slippage > 0

(* -------------------------------- C2 ----------------------------------- *)

\* C2: after each processed bar at most one trade of the ledger is open; an
\* open trade is the last ledger entry and the position quantity is then > 0;
\* with no open trade the position quantity is 0.
C2_SinglePosition ==
    /\ Cardinality(OpenTrades) <= 1
    /\ InLoop =>
        /\ OpenTrades # {} => (OpenTrades = {Len(trades)} /\ position > 0)
        /\ OpenTrades = {} => position = 0

\* a second position is open while the first trade stays closed in the ledger
C2_Witness ==
    /\ InLoop
    /\ Len(trades) = 2
    /\ OpenTrades = {2}
    /\ position > 0

(* -------------------------------- C3 ----------------------------------- *)

C3_Step ==
    InLoop =>
        /\ (position = 0 /\ position' > 0) <=> (Len(trades') = Len(trades) + 1)
        /\ (position > 0 /\ (position' = 0 \/ pc' = "done"))
               <=> (Cardinality(ClosedTrades') = Cardinality(ClosedTrades) + 1)
        /\ Len(trades') \in {Len(trades), Len(trades) + 1}
        /\ Cardinality(ClosedTrades') \in
               {Cardinality(ClosedTrades), Cardinality(ClosedTrades) + 1}

\* C3: in a completed run the Flat-to-Long transitions are as many as the
\* trades appended, the Long-to-Flat transitions (signal exits plus at most
\* one forced close) are as many as the closed trades, and each trade is
\* closed by exactly one transition.
C3_TransitionsMatchLedger ==
    /\ [](pc = "done" =>
            /\ Cardinality(Kinds({"enter"})) = Len(trades)
            /\ Cardinality(Kinds({"exit", "forced"})) = Cardinality(ClosedTrades)
            /\ Cardinality(Kinds({"forced"})) <= 1
            /\ \A k \in ClosedTrades : Cardinality(ClosingsOf(k)) = 1
            /\ \A k \in 1..Len(trades) : Cardinality(ClosingsOf(k)) <= 1)
    /\ [][C3_Step]_vars

\* a completed run with one trade closed by a signal and one by the forced close
C3_Witness ==
    /\ pc = "done"
    /\ Kinds({"exit"}) # {}
    /\ Kinds({"forced"}) # {}
    /\ Len(trades) = 2

(* -------------------------------- C4 ----------------------------------- *)

C4_EntryStep ==
    (AtBar /\ NextSignal = 1 /\ position = 0) =>
        LET quantity   == CalculatePositionSize(capital, NextClose)
            fill       == (NextClose * (RateDen + slippage)) \div RateDen
            entry_comm == (fill * quantity * commission) \div RateDen
        IN  /\ capital' = capital - (fill * quantity + entry_comm)
            /\ Len(trades') = Len(trades) + 1
            /\ SubSeq(trades', 1, Len(trades)) = trades
            /\ trades'[Len(trades')]["status"] = "open"
            /\ trades'[Len(trades')]["entry_price"] = fill
            /\ trades'[Len(trades')]["quantity"] = quantity
            /\ position' = quantity
            /\ position' > 0
            /\ entry_price' = fill

\* C4: on a bar with an Enter-Long signal while Flat the engine takes the
\* quantity from the position sizer (current capital, the bar's close), fills
\* at close x (1 + slippage_rate), pays commission = fill x quantity x
\* commission_rate, debits capital by exactly fill x quantity + commission,
\* appends one open trade with that fill and quantity, and becomes Long.
C4_EntryTransition == [][C4_EntryStep]_vars

\* a position of two units has just been opened with slippage and commission
C4_Witness ==
    /\ InLoop /\ i > 0
    /\ df[i].signal = 1
    /\ OpenTrades = {Len(trades)}
    /\ trades[Len(trades)]["entry_time"] = i
    /\ position = 2
    /\ commission > 0 /\ slippage > 0

(* -------------------------------- C5 ----------------------------------- *)

C5_ExitStep ==
    (AtBar /\ NextSignal = -1 /\ position > 0) =>
        LET n          == Len(trades)
            quantity   == trades[n]["quantity"]
            entry_fill == trades[n]["entry_price"]
            entry_comm == (entry_fill * quantity * commission) \div RateDen
            exit_fill  == (NextClose * (RateDen - slippage)) \div RateDen
            proceeds   == exit_fill * quantity
            exit_comm  == (proceeds * commission) \div RateDen
            pnl        == (exit_fill - entry_fill) * quantity - (entry_comm + exit_comm)
        IN  /\ quantity = position
            /\ capital' = capital + proceeds - exit_comm
            /\ Len(trades') = n
            /\ trades'[n]["status"] = "closed"
            /\ trades'[n]["exit_price"] = exit_fill
            /\ trades'[n]["pnl"] = pnl
            \* pnl_percent = pnl / (entry fill x quantity) x 100
            /\ trades'[n]["pnl_percent"] = Ratio(pnl * 100, entry_fill * quantity)
            /\ position' = 0

\* entry at 100, exit at 110
ScenarioSeries ==
    << [close |-> Money(100), signal |-> 1], [close |-> Money(110), signal |-> -1] >>

\* quantity 1, no slippage
ScenarioRun ==
    df = ScenarioSeries /\ initial_capital = Money(1000) /\ slippage = 0

\* 7.9
Money7_9 == 79 * (Unit \div 10)

\* 108.9
Money108_9 == 1089 * (Unit \div 10)

C5_Scenarios ==
    ScenarioRun =>
        /\ (pc = "loop" /\ i = 1 /\ commission = 0) =>
                capital = initial_capital - Money(100)
        /\ (pc = "loop" /\ i = 1 /\ commission = 1) =>
                capital = initial_capital - Money(101)
        /\ (pc = "loop" /\ i = 2 /\ commission = 1) =>
                capital = initial_capital - Money(101) + Money108_9
        /\ (pc = "done" /\ commission = 0) =>
                /\ trades[1]["quantity"] = 1
                /\ trades[1]["pnl"] = Money(10)
                /\ trades[1]["pnl_percent"] = Whole(10)
                /\ result["final_capital"] = initial_capital + Money(10)
        /\ (pc = "done" /\ commission = 1) =>
                /\ trades[1]["quantity"] = 1
                /\ trades[1]["pnl"] = Money7_9

\* C5: on a bar with an Exit-Long signal while Long the engine fills at
\* close x (1 - slippage_rate), pays exit commission = fill x quantity x
\* commission_rate, credits capital by exactly proceeds - exit commission,
\* records pnl = (exit fill - entry fill) x quantity - (entry commission +
\* exit commission) and pnl_percent = pnl / (entry fill x quantity) x 100 on
\* the open trade, marks it closed and becomes Flat; entry at 100 and exit at
\* 110 with quantity 1 gives pnl 10 and final_capital = initial_capital + 10
\* at zero costs, and pnl 7.9 (debit 101, credit 108.9) at commission 0.01.
C5_ExitTransition ==
    /\ [][C5_ExitStep]_vars
    /\ []C5_Scenarios

\* the scenario run at commission rate 0.01 has returned
C5_Witness ==
    /\ ScenarioRun /\ commission = 1
    /\ pc = "done"
    /\ Len(trades) = 1
    /\ Kinds({"exit"}) # {}

(* -------------------------------- C6 ----------------------------------- *)

\* C6: the commission field of every closed trade is the entry commission
\* plus the exit commission paid for that trade.
C6_CommissionIsEntryPlusExit ==
    \A k \in ClosedTrades :
        LET quantity   == trades[k]["quantity"]
            entry_comm == (trades[k]["entry_price"] * quantity * commission) \div RateDen
            exit_comm  == (trades[k]["exit_price"] * quantity * commission) \div RateDen
        IN  trades[k]["commission"] = entry_comm + exit_comm

(* -------------------------------- C7 ----------------------------------- *)

\* the bar's signal and the state are neither an entry nor an exit
OtherCombination ==
    \/ NextSignal = 1 /\ position > 0
    \/ NextSignal = -1 /\ position = 0
    \/ NextSignal = 0

C7_NoOpStep ==
    (AtBar /\ OtherCombination) =>
        /\ pc' = "loop"
        /\ capital' = capital
        /\ position' = position
        /\ entry_price' = entry_price
        /\ trades' = trades
        /\ Len(equity_curve') = Len(equity_curve) + 1
        /\ SubSeq(equity_curve', 1, Len(equity_curve)) = equity_curve

\* C7: a bar whose signal/state combination is neither an entry nor an exit
\* (Enter-Long while Long, Exit-Long while Flat, Hold) raises no error and
\* leaves capital, position quantity, entry price and the ledger unchanged;
\* its only effect is one appended equity-curve entry.
C7_OtherCombinationsAreNoOps == [][C7_NoOpStep]_vars

\* an Enter-Long bar has been processed while a position opened earlier is held
C7_Witness ==
    /\ InLoop /\ i >= 2
    /\ df[i].signal = 1
    /\ position > 0
    /\ trades[Len(trades)]["entry_time"] < i
    /\ Len(trades) = 1

(* -------------------------------- C8 ----------------------------------- *)

C8_UndefinedStep ==
    (AtBar /\ NextSignal = NaN) =>
        /\ capital' = capital
        /\ position' = position
        /\ entry_price' = entry_price
        /\ trades' = trades
        /\ equity_curve' =
               Append(equity_curve,
                      IF position = 0 THEN capital
                      ELSE capital + (NextClose - entry_price) * position)

EntryFields == {"entry_time", "entry_price", "quantity", "side", "commission"}

C9_LedgerStep ==
    InLoop =>
        /\ Len(trades') >= Len(trades)
        /\ \A k \in 1..Len(trades) :
            /\ trades[k]["status"] = "closed" => trades'[k] = trades[k]
            /\ trades'[k] # trades[k] =>
                /\ trades[k]["status"] = "open"
                /\ trades'[k]["status"] = "closed"
                /\ k = Len(trades)
                /\ \A f \in EntryFields : trades'[k][f] = trades[k][f]

\* C9: during a run the ledger only grows by appending at its end, a trade
\* record is modified exactly once, by the step that closes it, and a closed
\* trade is never modified by a later bar or by the forced close.
C9_LedgerAppendOnly ==
    /\ [][C9_LedgerStep]_vars
    /\ [](pc = "done" => \A k \in 1..Len(trades) : Cardinality(ClosingsOf(k)) = 1)

\* the forced close has closed a second trade after a first one was closed
C9_Witness ==
    /\ pc = "done"
    /\ Len(trades) = 2
    /\ ClosedTrades = {1, 2}
    /\ transitions[Len(transitions)].kind = "forced"
    /\ trades[1]["exit_time"] < trades[2]["entry_time"]

(* -------------------------------- C10 ---------------------------------- *)

\* C10: after k bars the equity curve has exactly k entries, so a completed
\* run's curve is as long as the series, with no leading initial-capital
\* entry; every bar contributes exactly one entry.
C10_OneEquityEntryPerBar ==
    /\ pc = "loop" => Len(equity_curve) = i
    /\ pc = "done" => Len(equity_curve) = Len(df) /\ result["equity_curve"] = equity_curve

\* a completed run over a full-length series with an undefined bar, an entry
\* and the forced close
C10_Witness ==
    /\ pc = "done"
    /\ Len(df) = MaxBars
    /\ \E k \in 1..Len(df) : df[k].signal = NaN
    /\ Kinds({"forced"}) # {}
    /\ Len(equity_curve) = MaxBars

(* -------------------------------- C11 ---------------------------------- *)

\* C11: for every completed run over a non-empty series the last entry of the
\* equity curve equals the returned final_capital, whether the run ended Flat
\* by itself or through the forced close.
C11_LastEquityIsFinalCapital ==
    (pc = "done" /\ Len(df) > 0) =>
        /\ Len(result["equity_curve"]) > 0
        /\ result["equity_curve"][Len(result["equity_curve"])] = result["final_capital"]

\* a run closed by force on a bar whose close differs from the entry fill
C11_Witness ==
    /\ pc = "done"
    /\ Kinds({"forced"}) # {}
    /\ Len(df) >= 2
    /\ trades[Len(trades)]["entry_time"] < Len(df)
    /\ trades[Len(trades)]["exit_price"] # trades[Len(trades)]["entry_price"]

(* -------------------------------- C12 ---------------------------------- *)

C13_SameRunSameResult ==
    (pc = "done" /\ DOMAIN previous # {}) =>
        /\ result = previous
        /\ trades = previous["trades"]
        /\ equity_curve = previous["equity_curve"]

\* a second run has returned a result with two trades and metrics
C13_Witness ==
    /\ pc = "done"
    /\ DOMAIN previous # {}
    /\ Len(result["trades"]) = 2
    /\ DOMAIN result["metrics"] # {}

(* -------------------------------- C14 ---------------------------------- *)

\* the parts of the message of the exception raised
Named(e) == {e.message[k] : k \in DOMAIN e.message}

\* nothing was simulated and the engine's ledger and curve are as before
NothingSimulated ==
    /\ trades' = trades
    /\ equity_curve' = equity_curve
    /\ i' = i
    /\ transitions' = transitions
    /\ DOMAIN result' = {}

C14_Step ==
    (Callable /\ args' # NoCall /\ args'.strategy_type \notin STRATEGY_MAP) =>
        /\ pc' = "error"
        /\ error'.exception = "ValueError"
        /\ error'.message[1] = "Unknown strategy type: "
        /\ args'.strategy_type \in Named(error')
        /\ NothingSimulated

\* C14: run called with a strategy kind outside {momentum, mean_reversion,
\* breakout} fails with an unknown-strategy error naming the kind, before any
\* signal generation or simulation: no bar is processed and the engine's
\* trades and equity_curve keep the values they had before the call.
C14_UnknownStrategyFails == [][C14_Step]_vars

\* an unknown kind was refused on an engine holding the ledger of a run
C14_Witness ==
    /\ pc = "error"
    /\ args.strategy_type = "invalid_strategy"
    /\ error = ValueError(<<"Unknown strategy type: ", "invalid_strategy">>)
    /\ Len(trades) = 2
    /\ Len(equity_curve) = 3

(* -------------------------------- C15 ---------------------------------- *)

\* C15: run called with an empty bar series fails with an invalid-input error
\* instead of returning a result.
C15_EmptySeriesFails ==
    Len(df) = 0 => (pc # "done" /\ DOMAIN result = {})

(* -------------------------------- C16 ---------------------------------- *)

C16_Step ==
    (/\ Callable
     /\ args' # NoCall
     /\ args'.strategy_type \in STRATEGY_MAP
     /\ Columns \ args'.columns # {}) =>
        /\ pc' = "error"
        /\ error'.exception = "ValueError"
        /\ NothingSimulated

\* C16: for each of the three generators and each of the five required
\* columns, generate_signals on a series lacking that column raises an error
\* and returns no signaled series; reached through run, no bar is simulated.
C16_MissingColumnFails ==
    /\ [][C16_Step]_vars
    /\ [](pc \in {"loop", "done"} => Columns \subseteq args.columns)

\* the breakout generator refused data without a volume column
C16_Witness ==
    /\ pc = "error"
    /\ args.strategy_type = "breakout"
    /\ args.columns = Columns \ {"volume"}
    /\ error.exception = "ValueError"

(* -------------------------------- C17 ---------------------------------- *)

\* C17: every configuration or input-data error (unknown strategy kind,
\* invalid moving-average type, missing required column) reaches the caller
\* as an error that identifies the precondition that failed: the unknown
\* kind, the invalid type, the missing column.
C17_ErrorsNameThePrecondition ==
    pc = "error" =>
        /\ error.exception # "none"
        /\ IF args.strategy_type \notin STRATEGY_MAP
               THEN args.strategy_type \in Named(error)
           ELSE IF Columns \ args.columns # {}
               THEN (Columns \ args.columns) \cap Named(error) # {}
           ELSE args.ma_type \in Named(error)

(* -------------------------------- C18 ---------------------------------- *)

MetricNames ==
    {"total_trades", "profitable_trades", "losing_trades", "win_rate",
     "avg_profit", "avg_loss", "profit_factor", "sharpe_ratio",
     "sortino_ratio", "max_drawdown"}

\* C18: the metrics of a result are the explicit empty result exactly when no
\* trade was opened during the run; they are never zero-valued metrics in
\* that case and are non-empty whenever a trade was opened.
C18_NoMetricsIffNoTrade ==
    pc = "done" =>
        /\ (DOMAIN result["metrics"] = {}) <=> (Kinds({"enter"}) = {})
        /\ Kinds({"enter"}) # {} => DOMAIN result["metrics"] = MetricNames

\* a run over three bars opened no trade and returned no metrics
C18_Witness ==
    /\ pc = "done"
    /\ Len(df) = 3
    /\ trades = << >>
    /\ DOMAIN result["metrics"] = {}

(* -------------------------------- C19 ---------------------------------- *)

\* C19: when a run produces metrics, profit_factor is finite and >= 0 and is
\* 0 when no trade has a negative pnl; win_rate = profitable_trades /
\* total_trades x 100 lies within [0, 100] with profitable_trades +
\* losing_trades <= total_trades; and max_drawdown is <= 0.
C19_MetricRanges ==
    (pc = "done" /\ DOMAIN result["metrics"] # {}) =>
        LET m       == result["metrics"]
            winners == {k \in 1..Len(trades) : trades[k]["pnl"] > 0}
            losers  == {k \in 1..Len(trades) : trades[k]["pnl"] < 0}
        IN  /\ m["profit_factor"].den > 0
            /\ m["profit_factor"].num >= 0
            /\ losers = {} => m["profit_factor"] = Whole(0)
            /\ m["total_trades"] = Len(trades)
            /\ m["profitable_trades"] = Cardinality(winners)
            /\ m["losing_trades"] = Cardinality(losers)
            /\ m["profitable_trades"] + m["losing_trades"] <= m["total_trades"]
            /\ m["win_rate"] = Ratio(Cardinality(winners) * 100, Len(trades))
            /\ m["win_rate"].den > 0
            /\ m["win_rate"].num >= 0
            /\ m["win_rate"].num <= 100 * m["win_rate"].den
            /\ m["max_drawdown"].den > 0
            /\ m["max_drawdown"].num <= 0

\* a run with a winning and a losing trade, a profit factor and a drawdown
C19_Witness ==
    /\ pc = "done"
    /\ DOMAIN result["metrics"] # {}
    /\ result["metrics"]["profitable_trades"] = 1
    /\ result["metrics"]["losing_trades"] = 1
    /\ result["metrics"]["profit_factor"].num > 0
    /\ result["metrics"]["max_drawdown"].num < 0

(* -------------------------------- C20 ---------------------------------- *)

\* no value of the curve differs from the one before it
FlatCurve(curve) == \A k \in 1..(Len(curve) - 1) : curve[k + 1] = curve[k]

\* no value of the curve is below the one before it
NoFall(curve) == \A k \in 1..(Len(curve) - 1) : curve[k + 1] >= curve[k]

\* C20: metrics computed over an equity curve whose returns are all 0, or
\* that has a single entry, have sharpe_ratio = 0 and sortino_ratio = 0 and
\* raise no error; sortino_ratio is also 0 whenever no return is negative.
C20_FlatCurveRatiosAreZero ==
    (pc = "done" /\ DOMAIN result["metrics"] # {}) =>
        LET m == result["metrics"] IN
        /\ FlatCurve(equity_curve) =>
            (m["sharpe_ratio"] = Whole(0) /\ m["sortino_ratio"] = Whole(0))
        /\ NoFall(equity_curve) => m["sortino_ratio"] = Whole(0)

\* metrics were computed over a flat curve of three entries
C20_Witness ==
    /\ pc = "done"
    /\ DOMAIN result["metrics"] # {}
    /\ Len(equity_curve) = 3
    /\ FlatCurve(equity_curve)
    /\ result["metrics"]["sharpe_ratio"] = Whole(0)

(* -------------------------------- C21 ---------------------------------- *)

\* the generator of the given type has returned its frame
Generated(type) ==
    call.fn = "generate_signals" /\ call.strategy_type = type /\ Len(returned) = 1

\* the signal column of the returned frame
SignalColumn == [k \in 1..Len(returned[1]) |-> returned[1][k].signal]

\* C21: for each of the three generators, every parameter set and every
\* valid bar series, the signal of every bar is one of 1 (Enter-Long), -1
\* (Exit-Long) or 0 (Hold); no other value appears in the signal column.
C21_SignalsAreBuySellHold ==
    \A type \in STRATEGY_MAP :
        Generated(type) =>
            /\ Len(SignalColumn) = Len(call.data)
            /\ \A k \in 1..Len(SignalColumn) : SignalColumn[k] \in {1, -1, 0}

\* the momentum generator returned a column that holds all three values,
\* the first on a bar whose slow average is not defined yet
C21_Witness ==
    /\ Generated("momentum")
    /\ call.parameters.ma_type = "sma"
    /\ call.parameters.slow_period = 2
    /\ SignalColumn = <<0, 1, -1>>

(* -------------------------------- C22 ---------------------------------- *)

\* row k of the call's data lacks an input of the generator's indicators
InputsMissing(k) ==
    \/ /\ call.strategy_type = "momentum"
       /\ call.parameters.ma_type = "sma"
       /\ k < Max(call.parameters.fast_period, call.parameters.slow_period)
    \/ /\ call.strategy_type = "mean_reversion"
       /\ k < Max(call.parameters.period, call.parameters.rsi_period)
    \/ /\ call.strategy_type = "breakout"
       /\ k < call.parameters.lookback_period

\* C22: for the momentum generator every bar at which the fast or the slow
\* moving average's lookback window is not yet filled carries the explicit
\* undefined marker, distinct from Hold (0); no generator emits Hold for a
\* bar whose indicator inputs are missing.
C22_UnfilledWindowIsUndefined ==
    \A type \in STRATEGY_MAP :
        Generated(type) =>
            \A k \in 1..Len(SignalColumn) :
                InputsMissing(k) => (SignalColumn[k] = NaN /\ SignalColumn[k] # 0)

(* -------------------------------- C23 ---------------------------------- *)

\* the falls of the window of row k add up to nothing
NoLossInWindow(prices, period, k) ==
    \A j \in (k - period + 1)..k : Fall(prices, j) = 0

\* C23: calculate_rsi returns, for every bar where the lookback window is
\* filled, a value within [0, 100], and the value is 100 whenever the average
\* loss over the window is zero, also when the average gain is zero as well;
\* a zero average loss never gives an undefined RSI.
C23_RsiWithinRange ==
    Returned("calculate_rsi") =>
        \A k \in 1..Len(call.prices) :
            k >= call.period =>
                LET rsi == returned[1][k] IN
                /\ ~IsNaN(rsi)
                /\ rsi.den > 0
                /\ rsi.num >= 0
                /\ rsi.num <= 100 * rsi.den
                /\ NoLossInWindow(call.prices, call.period, k) => rsi = Whole(100)

(* -------------------------------- C27 ---------------------------------- *)

\* high >= close >= low > 0 on every bar
WellFormed(data) ==
    \A k \in 1..Len(data) :
        data[k]["high"] >= data[k]["close"] /\ data[k]["close"] >= data[k]["low"]
            /\ data[k]["low"] > 0

\* C27: for every well-formed bar series (high >= close >= low > 0 on every
\* bar) and every breakout_threshold >= 0 the breakout generator emits Hold
\* (0) on every bar and never Enter-Long or Exit-Long, with or without volume
\* confirmation.
C27_BreakoutNeverSignals ==
    (Generated("breakout") /\ WellFormed(call.data)
         /\ call.parameters.breakout_threshold >= 0) =>
        \A k \in 1..Len(SignalColumn) : SignalColumn[k] = 0

\* the breakout generator returned from a well-formed series whose close
\* rises above every earlier high and then falls below every earlier low,
\* with the window filled and no volume confirmation asked
C27_Witness ==
    /\ Generated("breakout")
    /\ WellFormed(call.data)
    /\ Len(call.data) = 3
    /\ call.parameters.lookback_period = 1
    /\ call.parameters.breakout_threshold = 0
    /\ ~call.parameters.volume_confirmation
    /\ call.data[2]["close"] > call.data[1]["high"]
    /\ call.data[3]["close"] < call.data[2]["low"]
    /\ SignalColumn = <<0, 0, 0>>

(* -------------------------------- C24 ---------------------------------- *)

\* C24: calculate_position_size(capital, price, risk_fraction) returns the
\* integer max(1, floor(capital x risk_fraction / price)) for every capital,
\* positive price and risk fraction; the result is an integer >= 1, also when
\* capital x risk_fraction < price or capital <= 0.
C24_PositionSizeIsFlooredMinOne ==
    Returned("calculate_position_size") =>
        LET floor == (call.capital * call.risk_per_trade) \div (call.price * RateDen)
        IN  /\ returned[1] \in Nat
            /\ returned[1] >= 1
            /\ returned[1] = (IF floor >= 1 THEN floor ELSE 1)

\* the sizer was called with a negative capital whose risk amount is not a
\* multiple of the price, where int() and floor differ
C24_Witness ==
    /\ Returned("calculate_position_size")
    /\ call.capital < 0
    /\ (call.capital * call.risk_per_trade) % (call.price * RateDen) # 0
    /\ returned[1] = 1

(* -------------------------------- C25 ---------------------------------- *)

\* the handler answers with the given status
Responds(code) ==
    handler # "waiting" /\ handler' = "waiting" /\ response'.status_code = code

C25_Step ==
    \* the simulation starts only once the market data has been fetched
    /\ (pc # "loop" /\ pc' = "loop") => (handler = "run" /\ Len(df) > 0)
    \* nothing is fetched or stored while the simulation is under way
    /\ pc = "loop" => (handler = "run" /\ handler' = "run" /\ db' = db)
    \* a row is added only after run has returned, and then exactly one
    /\ db' # db =>
        /\ pc = "done"
        /\ handler = "run"
        /\ db' = Append(db, BacktestRow(result))
        /\ Responds(201)
    \* every failure path leaves the store as it is
    /\ Responds(404) => (handler = "query" /\ db' = db)
    /\ Responds(400) => (handler = "fetch" /\ db' = db)
    /\ Responds(500) => (handler = "run" /\ pc = "error" /\ db' = db)
    /\ Responds(201) => (pc = "done" /\ Len(db') = Len(db) + 1)

\* C25: in run_backtest the market data is retrieved before the simulation
\* starts and a Backtest record is persisted only after the simulation has
\* completed successfully; on every failure path (404 for a missing
\* strategy, 400 for a market-data failure or empty data, 500 for an engine
\* error) no Backtest record is added to the store.
C25_PersistOnlyAfterSuccess ==
    /\ [](pc = "loop" => handler = "run")
    /\ [][C25_Step]_vars

\* a request failed in the engine after an earlier request had stored a row
C25_Witness ==
    /\ handler = "waiting"
    /\ response.status_code = 500
    /\ pc = "error"
    /\ Len(db) = 1
    /\ db[1]["total_trades"] = 1

(* -------------------------------- C26 ---------------------------------- *)

\* the pnl fields of a ledger, in ledger order
PnlColumn(ledger) == [k \in 1..Len(ledger) |-> ledger[k]["pnl"]]

\* C26: for every completed run final_capital - initial_capital equals the
\* sum of the pnl fields of all trades of the ledger, so that total_return is
\* determined by the ledger alone.
C26_ReturnIsLedgerPnl ==
    pc = "done" =>
        /\ \A k \in 1..Len(result["trades"]) : "pnl" \in DOMAIN result["trades"][k]
        /\ result["final_capital"] - initial_capital = SeqSum(PnlColumn(result["trades"]))
        /\ result["total_return"] =
               Ratio(SeqSum(PnlColumn(result["trades"])) * 100, initial_capital)

\* a completed run of two trades with costs charged and a net loss or gain
C26_Witness ==
    /\ pc = "done"
    /\ Len(result["trades"]) = 2
    /\ commission > 0 /\ slippage > 0
    /\ result["final_capital"] # initial_capital
    /\ Kinds({"exit"}) # {}
    /\ Kinds({"forced"}) # {}

(* -------------------------------- C28 ---------------------------------- *)

NoCosts == commission = 0 /\ slippage = 0

\* the loop is between two bars and holds a position
LongInLoop == pc = "loop" /\ position > 0 /\ i > 0

C28_EntryStepKeepsValue ==
    (NoCosts /\ AtBar /\ position = 0 /\ position' > 0) =>
        equity_curve'[Len(equity_curve')] = capital

C29_CapitalNeverNegative ==
    (initial_capital >= 0 /\ pc \in {"loop", "done"}) => capital >= 0

(* -------------------------------- C30 ---------------------------------- *)

\* the forced close closed trade k
ForceClosed(k) ==
    \E n \in 1..Len(transitions) :
        transitions[n].kind = "forced" /\ transitions[n].trade = k

\* C30: in every result the ledger is time-ordered and its trades do not
\* overlap: each trade's entry_time <= its exit_time, with equality only for
\* a position opened on the last bar and force-closed there, and of two
\* consecutive trades the earlier one's exit_time is strictly before the
\* later one's entry_time.
C30_LedgerTimeOrdered ==
    pc = "done" =>
        LET ledger == result["trades"] IN
        /\ \A k \in 1..Len(ledger) :
            /\ "exit_time" \in DOMAIN ledger[k]
            /\ ledger[k]["entry_time"] <= ledger[k]["exit_time"]
            /\ ledger[k]["entry_time"] = ledger[k]["exit_time"] =>
                (k = Len(ledger) /\ ledger[k]["entry_time"] = Len(df) /\ ForceClosed(k))
        /\ \A k \in 1..(Len(ledger) - 1) :
            ledger[k]["exit_time"] < ledger[k + 1]["entry_time"]

\* a result of two trades, the second opened on the last bar and closed there
C30_Witness ==
    /\ pc = "done"
    /\ Len(result["trades"]) = 2
    /\ result["trades"][2]["entry_time"] = Len(df)
    /\ result["trades"][2]["exit_time"] = Len(df)
    /\ result["trades"][1]["exit_time"] = Len(df) - 1

====
